---------------------------- MODULE Spec2Model ----------------------------
(***************************************************************************)
(* Model of the STM32 USART bootloader driver, class Stm32UartBootloader   *)
(* of src/Stm32UartBootloader.ts: one driver instance, its GPIO pins, its  *)
(* serial port, the device on the other end of the UART, and the calls     *)
(* init() and flash(address, data).                                        *)
(*                                                                         *)
(* The driver runs on one event loop.  An action of this module is one     *)
(* macrotask of that loop (the call of flash, the completion callback of   *)
(* open/close/write, a timer, a 'data' event) together with every promise  *)
(* continuation it triggers, up to the next point where the code waits for *)
(* the event loop.  The code of one macrotask is written as operators from *)
(* a driver state (a record) to a driver state, composed in program order. *)
(***************************************************************************)
EXTENDS Integers, Sequences, FiniteSets, TLC

\* ---------------------------------------------------------------- constants

BOOT0_MAIN_FLASH == 0
BOOT0_SYSTEM_MEMORY == 1
WRITE_PACKET_SIZE == 256
CMD_GET == 0
CMD_ID == 2
CMD_WRITE_MEMORY == 49
CMD_ERASE == 67
ACK == 121
NACK == 31
AUTOBAUD == 127
FILL == 255

\* STATE of _cmdWrite
SEND_ADDRESS == 0
SEND_DATA == 1
WAIT_FOR_DATA_ACK == 2
COMPLETE == 3
ERROR == 4

\* ------------------------------------------------------------------- bounds

\* length of the longest image handed to flash()
MaxDataLen == 256
\* length of the longest image handed to flash() where only _writeAll is followed
MaxImageLen == 520
\* bytes of the longest 'data' chunk the transport delivers
MaxChunk == 2
\* bytes of the longest burst of ACK/NACK bytes the device sends in one exchange
MaxAcks == 3
\* serial writes whose completion callback reports an error
MaxWriteErrors == 1
\* opcodes of the longest Get response split in every way
MaxCmds == 3
\* bytes of the longest answer to Enter, Erase or Write Memory split in every way
MaxStream == 4
\* calls of init() on the driver
MaxInitCalls == 2

\* ------------------------------------------------------------ byte helpers

\* bit k of the byte a
Bit(a, k) == (a \div (2 ^ k)) % 2

\* the ^ of two bytes
BitXor(a, b) ==
    LET x(k) == ((Bit(a, k) + Bit(b, k)) % 2) * (2 ^ k)
    IN  x(0) + x(1) + x(2) + x(3) + x(4) + x(5) + x(6) + x(7)

\* what new Buffer([.., ~cmd]) stores for ~cmd: the low 8 bits of the complement
Not8(b) == 255 - (b % 256)

\* (address >> shift) & 0xff; the addresses of this model are below 2^31, where
\* >> on the 32-bit value is the division by 2^shift
AddrByte(address, shift) == (address \div (2 ^ shift)) % 256

\* the ^ of buf[lo..hi], 0 when empty.  ^ is associative, so this is the value
\* the loop of _calculateChecksumOfBuffer reaches from left to right; it is
\* taken by halves to keep the depth of evaluation logarithmic
RECURSIVE XorRange(_, _, _)
XorRange(buf, lo, hi) ==
    IF lo > hi THEN 0
    ELSE IF lo = hi THEN buf[lo]
    ELSE LET mid == (lo + hi) \div 2
         IN  BitXor(XorRange(buf, lo, mid), XorRange(buf, mid + 1, hi))

_calculateChecksumOfBuffer(buf) == XorRange(buf, 1, Len(buf))

Min(a, b) == IF a < b THEN a ELSE b

\* indexOf(cmd) >= 0 on a list
Contains(list, x) == \E i \in 1..Len(list) : list[i] = x

\* ------------------------------------------------------------------- state

VARIABLES
    pc,                 \* where the flash call stands: idle, open, sleep10,
                        \* sleep500, exchange, close
    initCalled,         \* this.initCalled
    boot0Pin,           \* [val, mode] last given to wpi for boot0Pin
    resetPin,           \* [val, mode] last given to wpi for resetPin
    serialPort,         \* this.serialPort: "null" or "port"
    portOpen,           \* the handle behind this.serialPort is open
    bootloaderVersion,  \* this.bootloaderVersion
    availableCommands,  \* this.availableCommands
    pid,                \* this.pid
    startAddress,       \* flash's address argument
    data,               \* flash's data argument
    address,            \* _writeAll: address
    offset,             \* _writeAll: offset
    exKind,             \* the exchange _withTimeoutAndData is running: none,
                        \* enter, get, id, erase, write
    exSeq,              \* number of exchanges started so far
    listeners,          \* 'data' listeners attached to the serial port
    timeout,            \* the exchange's timer is armed
    callbackCalled,     \* _withTimeoutAndData: callbackCalled
    state,              \* _cmdWrite: state
    packet,             \* _cmdWrite: data (the packet of _writeAll)
    buffer,             \* _cmdWithAckBeginAndEnd: buffer
    len,                \* _cmdWithAckBeginAndEnd / _cmdEraseAll: len
    pendingErr,         \* serial writes whose callback will report an error:
                        \* <<exchange, write>> pairs
    rxq,                \* bytes the device has sent, not yet delivered
    sent,               \* the device has answered in this exchange
    crashed,            \* an exception escaped a callback: the process is gone
    \* --- what the collaborators and the caller observe of the flash call
    obs,                \* GPIO, UART and timer operations, in order
    tx,                 \* frames written to the UART, in order
    events,             \* flash-progress events emitted: <<address, current, total>>
    writeOps,           \* _cmdWrite exchanges begun: [address, acked]
    innerErr,           \* the error thrown inside the try block, or "none"
    failAt,             \* Len(obs) when that error was thrown
    result,             \* of the flash call: none (not called), pending, ok,
                        \* or the error it was rejected with
    teardownErr,        \* the error the finally block threw, or "none"
    closeErr,           \* what the callback of close() was given: unset (not
                        \* called yet), none, or the error
    doneCalls,          \* the invocations of done: <<exchange, err>>, in order
    delivered,          \* the promises of exchanges settled: <<exchange, err>>
    rxLog,              \* [ex, kind, chunks]: where one exchange is followed
                        \* chunk by chunk (ChunkEvent), the exchange and the
                        \* chunks its listener has been given
    listenerLog,        \* the 'data' listeners attached at each serial write
                        \* and at each settling: <<"write" or "deliver", n>>
    initObs,            \* the calls of init ("init") and the GPIO operations
                        \* they have made, in order
    nWriteErr           \* write errors injected so far

vars == <<pc, initCalled, boot0Pin, resetPin, serialPort, portOpen,
          bootloaderVersion, availableCommands, pid, startAddress, data,
          address, offset, exKind, exSeq, listeners, timeout, callbackCalled,
          state, packet, buffer, len, pendingErr, rxq, sent, crashed, obs, tx,
          events, writeOps, innerErr, failAt, result, teardownErr, closeErr,
          doneCalls, delivered, rxLog, listenerLog, initObs, nWriteErr>>

\* the current state as one record, so that the code of one macrotask can be
\* written as a composition of operators
S ==
    [pc |-> pc, initCalled |-> initCalled, boot0Pin |-> boot0Pin,
     resetPin |-> resetPin, serialPort |-> serialPort, portOpen |-> portOpen,
     bootloaderVersion |-> bootloaderVersion,
     availableCommands |-> availableCommands, pid |-> pid,
     startAddress |-> startAddress, data |-> data, address |-> address,
     offset |-> offset, exKind |-> exKind, exSeq |-> exSeq,
     listeners |-> listeners, timeout |-> timeout,
     callbackCalled |-> callbackCalled, state |-> state, packet |-> packet,
     buffer |-> buffer, len |-> len, pendingErr |-> pendingErr, rxq |-> rxq,
     sent |-> sent, crashed |-> crashed, obs |-> obs, tx |-> tx,
     events |-> events, writeOps |-> writeOps, innerErr |-> innerErr,
     failAt |-> failAt, result |-> result, teardownErr |-> teardownErr,
     closeErr |-> closeErr, doneCalls |-> doneCalls,
     delivered |-> delivered, rxLog |-> rxLog, listenerLog |-> listenerLog,
     initObs |-> initObs,
     nWriteErr |-> nWriteErr]

\* the next state is the record r
Set(r) ==
    /\ pc' = r.pc
    /\ initCalled' = r.initCalled
    /\ boot0Pin' = r.boot0Pin
    /\ resetPin' = r.resetPin
    /\ serialPort' = r.serialPort
    /\ portOpen' = r.portOpen
    /\ bootloaderVersion' = r.bootloaderVersion
    /\ availableCommands' = r.availableCommands
    /\ pid' = r.pid
    /\ startAddress' = r.startAddress
    /\ data' = r.data
    /\ address' = r.address
    /\ offset' = r.offset
    /\ exKind' = r.exKind
    /\ exSeq' = r.exSeq
    /\ listeners' = r.listeners
    /\ timeout' = r.timeout
    /\ callbackCalled' = r.callbackCalled
    /\ state' = r.state
    /\ packet' = r.packet
    /\ buffer' = r.buffer
    /\ len' = r.len
    /\ pendingErr' = r.pendingErr
    /\ rxq' = r.rxq
    /\ sent' = r.sent
    /\ crashed' = r.crashed
    /\ obs' = r.obs
    /\ tx' = r.tx
    /\ events' = r.events
    /\ writeOps' = r.writeOps
    /\ innerErr' = r.innerErr
    /\ failAt' = r.failAt
    /\ result' = r.result
    /\ teardownErr' = r.teardownErr
    /\ closeErr' = r.closeErr
    /\ doneCalls' = r.doneCalls
    /\ delivered' = r.delivered
    /\ rxLog' = r.rxLog
    /\ listenerLog' = r.listenerLog
    /\ initObs' = r.initObs
    /\ nWriteErr' = r.nWriteErr


\* --------------------------------------------------------------- GPIO, UART

_setBoot0MainFlash(s) ==
    [s EXCEPT !.boot0Pin.val = BOOT0_MAIN_FLASH,
              !.obs = Append(@, "boot0MainFlash")]

_setBoot0SystemMemory(s) ==
    [s EXCEPT !.boot0Pin.val = BOOT0_SYSTEM_MEMORY,
              !.obs = Append(@, "boot0SystemMemory")]

_deassertReset(s) ==
    [s EXCEPT !.resetPin = [val |-> 1, mode |-> "OUTPUT"],
              !.obs = Append(@, "deassertReset")]

_assertReset(s) ==
    [s EXCEPT !.resetPin = [val |-> 0, mode |-> "INPUT"],
              !.obs = Append(@, "assertReset")]

\* this.serialPort.write(frame, cb); we: cb will be called with an error
write(s, frame, we) ==
    [s EXCEPT !.tx = Append(@, frame),
              !.obs = Append(@, "write"),
              !.listenerLog = Append(@, <<"write", s.listeners>>),
              !.pendingErr = IF we THEN @ \cup {<<s.exSeq, Len(s.tx) + 1>>} ELSE @,
              !.nWriteErr = IF we THEN @ + 1 ELSE @]

\* _openSerialPort up to the call of open()
_openSerialPort(s) ==
    [s EXCEPT !.serialPort = "port", !.portOpen = FALSE,
              !.obs = Append(@, "open"), !.pc = "open"]

\* the flash promise settles: resolved when err is "none", else rejected with err
Return(s, err) ==
    [s EXCEPT !.pc = "idle", !.result = IF err = "none" THEN "ok" ELSE err]

\* _closeSerialPort up to the call of close(); without a port it returns at
\* once and the finally block goes on to _deassertReset
_closeSerialPort(s) ==
    IF s.serialPort = "null"
    THEN Return(_deassertReset(s), s.innerErr)
    ELSE [s EXCEPT !.listeners = 0, !.obs = Append(@, "close"), !.pc = "close"]

\* closeCallback with the inner error taking precedence over the close error
closeCallback_InnerFirst(s, err) ==
    LET s1 == [s EXCEPT !.serialPort = "null", !.closeErr = err,
                        !.portOpen = IF err = "CloseError" THEN @ ELSE FALSE]
        e == IF err = "PortNotOpen" THEN "none" ELSE err
    IN  IF e # "none"
        THEN Return([s1 EXCEPT !.teardownErr = e],
                    IF s1.innerErr # "none" THEN s1.innerErr ELSE e)
        ELSE Return(_deassertReset(s1), s1.innerErr)

\* closeCallback that forgets this.serialPort = null when close reports an error
closeCallback_KeepPort(s, err) ==
    LET e == IF err = "PortNotOpen" THEN "none" ELSE err
        s0 == [s EXCEPT !.closeErr = err]
    IN  IF e # "none" THEN Return([s0 EXCEPT !.teardownErr = e], e)
        ELSE Return(_deassertReset([s0 EXCEPT !.serialPort = "null",
                                              !.portOpen = FALSE]),
                    s.innerErr)

\* closeCallback that rejects with every error close reports
closeCallback_NoSwallow(s, err) ==
    LET s1 == [s EXCEPT !.serialPort = "null", !.closeErr = err,
                        !.portOpen = IF err = "CloseError" THEN @ ELSE FALSE]
    IN  IF err # "none" THEN Return([s1 EXCEPT !.teardownErr = err], err)
        ELSE Return(_deassertReset(s1), s1.innerErr)

\* the callback of close(): the rest of _closeSerialPort and of the finally
\* block of _runSystemMemoryFn
closeCallback(s, err) ==
    LET s1 == [s EXCEPT !.serialPort = "null", !.closeErr = err,
                        !.portOpen = IF err = "CloseError" THEN @ ELSE FALSE]
        e == IF err = "PortNotOpen" THEN "none" ELSE err
    IN  IF e # "none" THEN Return([s1 EXCEPT !.teardownErr = e], e)
        ELSE Return(_deassertReset(s1), s1.innerErr)

\* the finally block of _runSystemMemoryFn
Finally(s) == _closeSerialPort(s)

\* an await of the try block of _runSystemMemoryFn throws err
Throw(s, err) ==
    Finally([s EXCEPT !.innerErr = err, !.failAt = Len(s.obs)])

\* the try block of _runSystemMemoryFn after fn() has returned
AfterFn(s) == Finally(_setBoot0MainFlash(_assertReset(s)))

\* ------------------------------------------------------------ the exchanges

_cmdIsAvailable(s, cmd) == Contains(s.availableCommands, cmd)

\* _withTimeoutAndData that calls begin before it attaches the listener
_withTimeoutAndData_BeginFirst(s, kind, frame, we) ==
    [write([s EXCEPT !.pc = "exchange", !.exKind = kind, !.exSeq = @ + 1,
                     !.timeout = TRUE, !.callbackCalled = FALSE,
                     !.rxq = <<>>, !.sent = FALSE],
           frame, we)
     EXCEPT !.listeners = @ + 1]

\* _withTimeoutAndData up to the return of begin: timer, listener, first write
_withTimeoutAndData(s, kind, frame, we) ==
    write([s EXCEPT !.pc = "exchange", !.exKind = kind, !.exSeq = @ + 1,
                    !.timeout = TRUE, !.callbackCalled = FALSE,
                    !.listeners = @ + 1, !.rxq = <<>>, !.sent = FALSE],
          frame, we)

_enterBootloader(s, we) == _withTimeoutAndData(s, "enter", <<AUTOBAUD>>, we)

_cmdWithAckBeginAndEnd(s, kind, cmd, we) ==
    _withTimeoutAndData([s EXCEPT !.buffer = <<>>, !.len = -1],
                        kind, <<cmd, Not8(cmd)>>, we)

_getCmd(s, we) == _cmdWithAckBeginAndEnd(s, "get", CMD_GET, we)

_getIdCmd(s, we) ==
    IF ~_cmdIsAvailable(s, CMD_ID) THEN Throw(s, "IdNotAvailable")
    ELSE _cmdWithAckBeginAndEnd(s, "id", CMD_ID, we)

\* _cmdEraseAll without the test of _cmdIsAvailable
_cmdEraseAll_Ungated(s, we) ==
    _withTimeoutAndData([s EXCEPT !.len = 0], "erase",
                        <<CMD_ERASE, Not8(CMD_ERASE)>>, we)

_cmdEraseAll(s, we) ==
    IF ~_cmdIsAvailable(s, CMD_ERASE) THEN Throw(s, "EraseNotAvailable")
    ELSE _withTimeoutAndData([s EXCEPT !.len = 0], "erase",
                             <<CMD_ERASE, Not8(CMD_ERASE)>>, we)

\* _cmdWrite(address, data) up to the return of begin
_cmdWrite(s, addr, pkt, we) ==
    IF ~_cmdIsAvailable(s, CMD_WRITE_MEMORY) THEN Throw(s, "WriteNotAvailable")
    ELSE _withTimeoutAndData(
             [s EXCEPT !.state = SEND_ADDRESS, !.packet = pkt,
                       !.writeOps = Append(@, [address |-> addr, acked |-> FALSE])],
             "write", <<CMD_WRITE_MEMORY, Not8(CMD_WRITE_MEMORY)>>, we)

\* PaddedLength that adds nothing to a length that is a multiple of 4
PaddedLength_Aligned(d) == Len(d) + ((4 - (Len(d) % 4)) % 4)

\* _writeAll: length
PaddedLength(d) == Len(d) + (4 - (Len(d) % 4))

\* _writeAll: Buffer.alloc(WRITE_PACKET_SIZE, 0xff) and data.copy(packet, 0, offset)
MakePacket(d, off) ==
    [i \in 1..WRITE_PACKET_SIZE |-> IF off + i <= Len(d) THEN d[off + i] ELSE FILL]

\* writeAllLoop that goes on while offset <= length
writeAllLoop_Inclusive(s, we) ==
    IF s.offset <= PaddedLength(s.data)
    THEN IF s.offset > Len(s.data)
         THEN Throw(s, "RangeError")
         ELSE _cmdWrite(s, s.address, MakePacket(s.data, s.offset), we)
    ELSE AfterFn(s)

\* _writeAll: the test of the while loop and one pass up to the await
writeAllLoop(s, we) ==
    IF s.offset < PaddedLength(s.data)
    THEN IF s.offset > Len(s.data)
         THEN Throw(s, "RangeError")    \* data.copy: sourceStart out of bounds
         ELSE _cmdWrite(s, s.address, MakePacket(s.data, s.offset), we)
    ELSE AfterFn(s)

_writeAll(s, we) ==
    writeAllLoop([s EXCEPT !.address = s.startAddress, !.offset = 0], we)

\* writeAllNext that advances offset but not address
writeAllNext_SameAddress(s, we) ==
    writeAllLoop(
        [s EXCEPT !.events = Append(@, <<s.address, s.offset, PaddedLength(s.data)>>),
                  !.offset = @ + Len(s.packet)],
        we)

\* writeAllNext that emits flash-progress after advancing address and offset
writeAllNext_EmitAfter(s, we) ==
    writeAllLoop(
        [s EXCEPT !.events = Append(@, <<s.address + Len(s.packet),
                                         s.offset + Len(s.packet),
                                         PaddedLength(s.data)>>),
                  !.address = @ + Len(s.packet),
                  !.offset = @ + Len(s.packet)],
        we)

\* writeAllNext whose event carries the number of payload bytes of the session
writeAllNext_TotalWritten(s, we) ==
    writeAllLoop(
        [s EXCEPT !.events = Append(@, <<s.address, s.offset,
                                         ((Len(s.data) + WRITE_PACKET_SIZE)
                                              \div WRITE_PACKET_SIZE)
                                             * WRITE_PACKET_SIZE>>),
                  !.address = @ + Len(s.packet),
                  !.offset = @ + Len(s.packet)],
        we)

\* _writeAll: the rest of one pass, after the await of _cmdWrite
writeAllNext(s, we) ==
    writeAllLoop(
        [s EXCEPT !.events = Append(@, <<s.address, s.offset, PaddedLength(s.data)>>),
                  !.address = @ + Len(s.packet),
                  !.offset = @ + Len(s.packet)],
        we)

\* what runs when the promise of the exchange of kind `kind` settles
Continue(s, kind, err, arg, we) ==
    LET s0 == [s EXCEPT !.exKind = "none", !.rxq = <<>>, !.sent = FALSE,
                        !.delivered = Append(@, <<s.exSeq, err>>),
                        !.listenerLog = Append(@, <<"deliver", s.listeners>>)]
    IN  IF err # "none" THEN Throw(s0, err)
        ELSE CASE kind = "enter" -> _getCmd(s0, we)
               [] kind = "get" ->
                    _getIdCmd([s0 EXCEPT !.bootloaderVersion = arg[3],
                                         !.availableCommands =
                                             SubSeq(arg, 4, Len(arg) - 1)], we)
               [] kind = "id" ->
                    _cmdEraseAll([s0 EXCEPT !.pid = arg[3] * 256 + arg[4]], we)
               [] kind = "erase" -> _writeAll(s0, we)
               [] kind = "write" ->
                    writeAllNext(
                        [s0 EXCEPT !.writeOps[Len(s0.writeOps)].acked = TRUE], we)

\* _withTimeoutAndData: done, called by the exchange that is running
_done(s, err, arg, we) ==
    LET s1 == [s EXCEPT !.timeout = FALSE, !.listeners = 0,
                        !.doneCalls = Append(@, <<s.exSeq, err>>)]
    IN  IF ~s.callbackCalled
        THEN Continue([s1 EXCEPT !.callbackCalled = TRUE], s.exKind, err, arg, we)
        ELSE s1

\* enterOnData without the test of the chunk's length
enterOnData_AnyLength(s, chunk, we) ==
    IF chunk[1] # ACK THEN _done(s, "EnterExpected0x79", <<>>, we)
    ELSE _done(s, "none", <<>>, we)

\* the onData parsers
enterOnData(s, chunk, we) ==
    IF Len(chunk) # 1 THEN _done(s, "EnterExpectedLength1", <<>>, we)
    ELSE IF chunk[1] # ACK THEN _done(s, "EnterExpected0x79", <<>>, we)
    ELSE _done(s, "none", <<>>, we)

\* ackBeginAndEndOnData that reads the length byte from the chunk at hand
ackBeginAndEndOnData_LenFromChunk(s, chunk, we) ==
    IF Len(s.buffer) = 0 /\ chunk[1] # ACK
    THEN _done(s, "ExpectedStartAck", <<>>, we)
    ELSE LET b == s.buffer \o chunk
             l == IF Len(chunk) > 2 /\ s.len < 0 THEN chunk[2] + 4 ELSE s.len
             s1 == [s EXCEPT !.buffer = b, !.len = l]
         IN  IF Len(b) = l
             THEN IF b[Len(b)] # ACK
                  THEN _done(s1, "ExpectedEndAck", <<>>, we)
                  ELSE _done(s1, "none", b, we)
             ELSE s1

ackBeginAndEndOnData(s, chunk, we) ==
    IF Len(s.buffer) = 0 /\ chunk[1] # ACK
    THEN _done(s, "ExpectedStartAck", <<>>, we)
    ELSE LET b == s.buffer \o chunk
             l == IF Len(b) > 2 /\ s.len < 0 THEN b[2] + 4 ELSE s.len
             s1 == [s EXCEPT !.buffer = b, !.len = l]
         IN  IF Len(b) = l
             THEN IF b[Len(b)] # ACK
                  THEN _done(s1, "ExpectedEndAck", <<>>, we)
                  ELSE _done(s1, "none", b, we)
             ELSE s1

eraseOnData(s, chunk, we) ==
    IF chunk[1] # ACK THEN _done(s, "ExpectedStartAck", <<>>, we)
    ELSE LET s1 == [s EXCEPT !.len = @ + Len(chunk)]
         IN  IF s1.len = 2 THEN _done(s1, "none", <<>>, we)
             ELSE write(s1, <<255, 0>>, we)

AddressFrame(a) ==
    LET addr0 == AddrByte(a, 24)
        addr1 == AddrByte(a, 16)
        addr2 == AddrByte(a, 8)
        addr3 == AddrByte(a, 0)
    IN  <<addr0, addr1, addr2, addr3,
          BitXor(BitXor(BitXor(addr0, addr1), addr2), addr3)>>

\* DataFrame whose last byte is the checksum of the payload alone
DataFrame_PayloadChecksum(d) ==
    LET b0 == (Len(d) - 1) % 256
    IN  <<b0>> \o d \o <<_calculateChecksumOfBuffer(d)>>

DataFrame(d) ==
    LET b0 == (Len(d) - 1) % 256
    IN  <<b0>> \o d \o <<BitXor(b0, _calculateChecksumOfBuffer(d))>>

writeOnData(s, rx, we) ==
    CASE s.state = SEND_ADDRESS ->
           IF rx[1] # ACK
           THEN _done([s EXCEPT !.state = ERROR], "ExpectedStartAck", <<>>, we)
           ELSE write([s EXCEPT !.state = SEND_DATA], AddressFrame(s.address), we)
      [] s.state = SEND_DATA ->
           IF rx[1] # ACK
           THEN _done([s EXCEPT !.state = ERROR], "ExpectedAddressAck", <<>>, we)
           ELSE write([s EXCEPT !.state = WAIT_FOR_DATA_ACK], DataFrame(s.packet), we)
      [] s.state = WAIT_FOR_DATA_ACK ->
           IF rx[1] # ACK
           THEN _done([s EXCEPT !.state = ERROR], "ExpectedDataAck", <<>>, we)
           ELSE _done([s EXCEPT !.state = COMPLETE], "none", <<>>, we)
      [] OTHER -> s

onData(s, chunk, we) ==
    CASE s.exKind = "enter" -> enterOnData(s, chunk, we)
      [] s.exKind \in {"get", "id"} -> ackBeginAndEndOnData(s, chunk, we)
      [] s.exKind = "erase" -> eraseOnData(s, chunk, we)
      [] s.exKind = "write" -> writeOnData(s, chunk, we)

\* ------------------------------------------------- the caller and the device

\* flash's address arguments: 0x08000000
StartAddresses == {134217728}

\* an image of n bytes; its byte i (from 1) is i mod 256, so 0xff occurs in it
Image(n) == [i \in 1..n |-> i % 256]

\* the image lengths tried: the empty image and the two longest
DataLens == {0, MaxDataLen - 1, MaxDataLen}

\* a Get response advertising the commands cmds, closed by the byte last; the
\* device reports the version 0x31
GetResponse(cmds, last) == <<ACK, Len(cmds), 49>> \o cmds \o <<last>>

CommandLists ==
    {<<CMD_ID, CMD_ERASE, CMD_WRITE_MEMORY>>, <<CMD_ID, CMD_WRITE_MEMORY>>,
     <<CMD_ERASE, CMD_WRITE_MEMORY>>, <<CMD_ID, CMD_ERASE>>,
     <<CMD_WRITE_MEMORY>>}

\* all sequences over the set B of length 1..n
RECURSIVE SeqsUpTo(_, _)
SeqsUpTo(B, n) ==
    IF n = 0 THEN {}
    ELSE LET shorter == SeqsUpTo(B, n - 1)
         IN  {<<b>> : b \in B} \cup shorter
                 \cup {Append(q, b) : q \in shorter, b \in B}

\* what the device may send during an exchange
Streams(kind) ==
    CASE kind = "get" ->
           {GetResponse(c, ACK) : c \in CommandLists}
               \cup {GetResponse(<<CMD_ID, CMD_ERASE, CMD_WRITE_MEMORY>>, NACK),
                     <<NACK>>, <<ACK, 3, 49>>,
                     GetResponse(<<CMD_ID, CMD_ERASE, CMD_WRITE_MEMORY>>, ACK)
                         \o <<ACK>>}
      [] kind = "id" -> {<<ACK, 1, 4, 16, ACK>>, <<ACK, 1, 4, 16, NACK>>, <<NACK>>}
      [] OTHER -> SeqsUpTo({ACK, NACK}, MaxAcks)

\* how a serial write's callback may end: with an error only MaxWriteErrors times
WriteErrs == IF nWriteErr < MaxWriteErrors THEN BOOLEAN ELSE {FALSE}

\* how close() may end
CloseOutcomes ==
    IF portOpen THEN {"none", "CloseError", "PortNotOpen"} ELSE {"PortNotOpen"}

\* -------------------------------------------------------------------- actions

\* the driver after its construction, before any call; -1 stands for a field
\* or a pin that has not been written yet
InitState ==
    [pc |-> "idle",
     initCalled |-> FALSE,
     boot0Pin |-> [val |-> -1, mode |-> "unset"],
     resetPin |-> [val |-> -1, mode |-> "unset"],
     serialPort |-> "null",
     portOpen |-> FALSE,
     bootloaderVersion |-> -1,
     availableCommands |-> <<>>,
     pid |-> -1,
     startAddress |-> 0,
     data |-> <<>>,
     address |-> 0,
     offset |-> 0,
     exKind |-> "none",
     exSeq |-> 0,
     listeners |-> 0,
     timeout |-> FALSE,
     callbackCalled |-> FALSE,
     state |-> SEND_ADDRESS,
     packet |-> <<>>,
     buffer |-> <<>>,
     len |-> 0,
     pendingErr |-> {},
     rxq |-> <<>>,
     sent |-> FALSE,
     crashed |-> FALSE,
     obs |-> <<>>,
     tx |-> <<>>,
     events |-> <<>>,
     writeOps |-> <<>>,
     innerErr |-> "none",
     failAt |-> 0,
     result |-> "none",
     teardownErr |-> "none",
     closeErr |-> "unset",
     doneCalls |-> <<>>,
     delivered |-> <<>>,
     rxLog |-> [ex |-> 0, kind |-> "none", chunks |-> <<>>],
     listenerLog |-> <<>>,
     initObs |-> <<>>,
     nWriteErr |-> 0]

\* the state is the record r
Eq(r) ==
    /\ pc = r.pc
    /\ initCalled = r.initCalled
    /\ boot0Pin = r.boot0Pin
    /\ resetPin = r.resetPin
    /\ serialPort = r.serialPort
    /\ portOpen = r.portOpen
    /\ bootloaderVersion = r.bootloaderVersion
    /\ availableCommands = r.availableCommands
    /\ pid = r.pid
    /\ startAddress = r.startAddress
    /\ data = r.data
    /\ address = r.address
    /\ offset = r.offset
    /\ exKind = r.exKind
    /\ exSeq = r.exSeq
    /\ listeners = r.listeners
    /\ timeout = r.timeout
    /\ callbackCalled = r.callbackCalled
    /\ state = r.state
    /\ packet = r.packet
    /\ buffer = r.buffer
    /\ len = r.len
    /\ pendingErr = r.pendingErr
    /\ rxq = r.rxq
    /\ sent = r.sent
    /\ crashed = r.crashed
    /\ obs = r.obs
    /\ tx = r.tx
    /\ events = r.events
    /\ writeOps = r.writeOps
    /\ innerErr = r.innerErr
    /\ failAt = r.failAt
    /\ result = r.result
    /\ teardownErr = r.teardownErr
    /\ closeErr = r.closeErr
    /\ doneCalls = r.doneCalls
    /\ delivered = r.delivered
    /\ rxLog = r.rxLog
    /\ listenerLog = r.listenerLog
    /\ initObs = r.initObs
    /\ nWriteErr = r.nWriteErr

Init == Eq(InitState)

\* init without the test of initCalled
init_Unguarded(s) ==
    LET s1 == _deassertReset(_setBoot0MainFlash(
                  [s EXCEPT !.boot0Pin.mode = "OUTPUT", !.obs = <<>>]))
    IN  [s1 EXCEPT !.initCalled = TRUE,
                   !.initObs = s.initObs \o <<"init", "pinModeBoot0">> \o s1.obs,
                   !.obs = s.obs]

\* init(); the call and its GPIO operations are recorded in initObs, the
\* operations of flash in obs
init(s) ==
    IF ~s.initCalled
    THEN LET s1 == _deassertReset(_setBoot0MainFlash(
                       [s EXCEPT !.boot0Pin.mode = "OUTPUT", !.obs = <<>>]))
         IN  [s1 EXCEPT !.initCalled = TRUE,
                        !.initObs = s.initObs \o <<"init", "pinModeBoot0">> \o s1.obs,
                        !.obs = s.obs]
    ELSE [s EXCEPT !.initObs = Append(@, "init")]

\* the calls of init made so far
InitCalls == Cardinality({i \in 1..Len(initObs) : initObs[i] = "init"})

\* init is called between flash calls, each call awaited
InitCall ==
    /\ ~crashed /\ pc = "idle" /\ InitCalls < MaxInitCalls
    /\ Set(init(S))

\* flash(a, d) up to the first wait: _runSystemMemoryFn, _openSerialPort
flash(s, a, d) ==
    _openSerialPort(
        [s EXCEPT !.startAddress = a, !.data = d, !.result = "pending"])

\* one flash call is followed, from its start to its return and after
FlashCall ==
    /\ ~crashed /\ pc = "idle" /\ result = "none"
    /\ \E a \in StartAddresses, n \in DataLens : Set(flash(S, a, Image(n)))

\* the callback of open(): the try block up to the first sleep
openCallback(s, err) ==
    IF err # "none" THEN Throw(s, err)
    ELSE [_setBoot0SystemMemory(_assertReset([s EXCEPT !.portOpen = TRUE]))
          EXCEPT !.pc = "sleep10"]

OpenDone ==
    /\ ~crashed /\ pc = "open"
    /\ \E err \in {"none", "OpenError"} : Set(openCallback(S, err))

\* afterSleep10 going on to _enterBootloader without the 500 ms wait
afterSleep10_NoWait(s) ==
    _enterBootloader(_deassertReset([s EXCEPT !.obs = Append(@, "sleep10")]), FALSE)

\* the 10 ms timer
afterSleep10(s) ==
    [_deassertReset([s EXCEPT !.obs = Append(@, "sleep10")]) EXCEPT !.pc = "sleep500"]

Sleep10Done ==
    /\ ~crashed /\ pc = "sleep10"
    /\ Set(afterSleep10(S))

\* the 500 ms timer
afterSleep500(s, we) ==
    _enterBootloader([s EXCEPT !.obs = Append(@, "sleep500")], we)

Sleep500Done ==
    /\ ~crashed /\ pc = "sleep500"
    /\ \E we \in WriteErrs : Set(afterSleep500(S, we))

\* the device answers the exchange that is running
DeviceSend ==
    /\ ~crashed /\ pc = "exchange" /\ ~sent
    /\ \E q \in Streams(exKind) : rxq' = q
    /\ sent' = TRUE
    /\ UNCHANGED <<pc, initCalled, boot0Pin, resetPin, serialPort, portOpen,
          bootloaderVersion, availableCommands, pid, startAddress, data,
          address, offset, exKind, exSeq, listeners, timeout, callbackCalled,
          state, packet, buffer, len, pendingErr, crashed, obs, tx,
          events, writeOps, innerErr, failAt, result, teardownErr, closeErr,
          doneCalls, delivered, rxLog, listenerLog, initObs, nWriteErr>>

\* a 'data' event: the next k bytes reach the listener
DataEvent ==
    /\ ~crashed /\ listeners > 0 /\ rxq # <<>>
    /\ \E k \in 1..Min(MaxChunk, Len(rxq)), we \in WriteErrs :
          Set(onData([S EXCEPT !.rxq = SubSeq(rxq, k + 1, Len(rxq))],
                     SubSeq(rxq, 1, k), we))

\* timeoutCallback that detaches the listener and does not call done
timeoutCallback_NoDone(s) ==
    [s EXCEPT !.listeners = 0, !.timeout = FALSE]

\* the timer of _withTimeoutAndData fires
timeoutCallback(s) ==
    _done([s EXCEPT !.listeners = 0], "Timeout", <<>>, FALSE)

TimeoutFire ==
    /\ ~crashed /\ timeout
    /\ Set(timeoutCallback(S))

\* writeErrorCallback whose done settles the promise again when its
\* callbackCalled is already true
writeErrorCallback_Redeliver(s, p) ==
    LET s1 == [s EXCEPT !.pendingErr = @ \ {p}]
        s2 == [s1 EXCEPT !.doneCalls = Append(@, <<p[1], "WriteError">>)]
    IN  IF s1.serialPort = "null"
        THEN [s2 EXCEPT !.crashed = TRUE]
        ELSE IF p[1] = s1.exSeq /\ s1.exKind # "none"
        THEN _done(s1, "WriteError", <<>>, FALSE)
        ELSE [s2 EXCEPT !.listeners = 0,
                        !.delivered = Append(@, <<p[1], "WriteError">>)]

\* the callback of the serial write p reports an error: done(err) of the
\* exchange that made the write
writeErrorCallback(s, p) ==
    LET s1 == [s EXCEPT !.pendingErr = @ \ {p}]
        s2 == [s1 EXCEPT !.doneCalls = Append(@, <<p[1], "WriteError">>)]
    IN  IF s1.serialPort = "null"
        THEN [s2 EXCEPT !.crashed = TRUE]   \* TypeError in self.serialPort.removeAllListeners
        ELSE IF p[1] = s1.exSeq /\ s1.exKind # "none"
        THEN _done(s1, "WriteError", <<>>, FALSE)
        ELSE [s2 EXCEPT !.listeners = 0]    \* its callbackCalled is already true

WriteErrorEvent ==
    /\ ~crashed
    /\ \E p \in pendingErr : Set(writeErrorCallback(S, p))

CloseDone ==
    /\ ~crashed /\ pc = "close"
    /\ \E err \in CloseOutcomes : Set(closeCallback(S, err))

Next ==
    \/ InitCall
    \/ FlashCall
    \/ OpenDone
    \/ Sleep10Done
    \/ Sleep500Done
    \/ DeviceSend
    \/ DataEvent
    \/ TimeoutFire
    \/ WriteErrorEvent
    \/ CloseDone

Spec == Init /\ [][Next]_vars

\* the event loop runs every callback that is due: the callbacks of open()
\* and close() are eventually invoked and armed timers eventually fire; the
\* device is free to send nothing, and a write need not fail
Fairness ==
    /\ WF_vars(OpenDone)
    /\ WF_vars(Sleep10Done)
    /\ WF_vars(Sleep500Done)
    /\ WF_vars(TimeoutFire)
    /\ WF_vars(CloseDone)

SpecLive == Spec /\ Fairness

\* ------------------------------------------- _writeAll on images of any length

\* a flash call of an image of n bytes on a device that answers every
\* exchange well, followed up to the call of _writeAll: the first _cmdWrite
\* has written its opcode frame, or, without a packet to write, teardown has begun
WriteAllStart(a, n) ==
    LET s1 == flash(init(InitState), a, Image(n))
        s2 == afterSleep500(afterSleep10(openCallback(s1, "none")), FALSE)
        s3 == onData(s2, <<ACK>>, FALSE)
        s4 == onData(s3, GetResponse(<<CMD_ID, CMD_ERASE, CMD_WRITE_MEMORY>>, ACK),
                     FALSE)
        s5 == onData(s4, <<ACK, 1, 4, 16, ACK>>, FALSE)
        s6 == onData(s5, <<ACK>>, FALSE)
    IN  onData(s6, <<ACK>>, FALSE)

InitWriteAll ==
    \E a \in StartAddresses, n \in 0..MaxImageLen : Eq(WriteAllStart(a, n))

\* a 'data' event of the device that acknowledges everything: one ACK byte
AckEvent ==
    /\ ~crashed /\ listeners > 0
    /\ Set(onData(S, <<ACK>>, FALSE))

NextWriteAll ==
    \/ AckEvent
    \/ CloseDone

SpecWriteAll == InitWriteAll /\ [][NextWriteAll]_vars

\* ------------------------------------ one exchange, its answer split in chunks

\* a flash call of a 4-byte image followed up to the start of the exchange of
\* kind `kind`, every exchange before it answered well
ExchangeStart(kind) ==
    LET s1 == flash(init(InitState), 134217728, Image(4))
        s2 == afterSleep500(afterSleep10(openCallback(s1, "none")), FALSE)
        s3 == onData(s2, <<ACK>>, FALSE)
        s4 == onData(s3, GetResponse(<<CMD_ID, CMD_ERASE, CMD_WRITE_MEMORY>>, ACK),
                     FALSE)
        s5 == onData(s4, <<ACK, 1, 4, 16, ACK>>, FALSE)
        s6 == onData(onData(s5, <<ACK>>, FALSE), <<ACK>>, FALSE)
    IN  CASE kind = "enter" -> s2
          [] kind = "get" -> s3
          [] kind = "erase" -> s5
          [] kind = "write" -> s6

\* all sequences over the set B of length 0..n
SeqsFrom0(B, n) == {<<>>} \cup SeqsUpTo(B, n)

\* the answers tried: for Get the well-formed responses of up to MaxCmds
\* opcodes and the same with a last byte that is not ACK, for the other
\* exchanges every sequence of ACK and NACK bytes
Answers(kind) ==
    IF kind = "get"
    THEN {GetResponse(c, last) :
              c \in SeqsFrom0({CMD_ID, CMD_ERASE, CMD_WRITE_MEMORY}, MaxCmds),
              last \in {ACK, NACK}}
    ELSE SeqsUpTo({ACK, NACK}, MaxStream)

InitChunks ==
    \E kind \in {"enter", "get", "erase", "write"} :
        \E q \in Answers(kind) :
            Eq([ExchangeStart(kind) EXCEPT
                    !.rxq = q, !.sent = TRUE,
                    !.rxLog = [ex |-> ExchangeStart(kind).exSeq,
                               kind |-> kind, chunks |-> <<>>]])

\* a 'data' event of any length: the next k bytes reach the listener of the
\* exchange that is followed
ChunkEvent ==
    /\ ~crashed /\ listeners > 0 /\ rxq # <<>> /\ exSeq = rxLog.ex
    /\ \E k \in 1..Len(rxq) :
          Set(onData([S EXCEPT !.rxq = SubSeq(rxq, k + 1, Len(rxq)),
                               !.rxLog.chunks = Append(@, SubSeq(rxq, 1, k))],
                     SubSeq(rxq, 1, k), FALSE))

\* the timer of the exchange fires once every byte has been handed over
QuietTimeout ==
    /\ rxq = <<>> /\ exSeq = rxLog.ex
    /\ TimeoutFire

NextChunks ==
    \/ ChunkEvent
    \/ QuietTimeout
    \/ CloseDone

SpecChunks == InitChunks /\ [][NextChunks]_vars

\* --------------------------------------------------------------- the claims

\* the flash call has returned
Returned == pc = "idle" /\ result \notin {"none", "pending"}

\* the steps 11..14 of the exit sequence
Teardown == <<"assertReset", "boot0MainFlash", "close", "deassertReset">>

\* what obs holds after the failure of the try block
ObsAfterFailure == SubSeq(obs, failAt + 1, Len(obs))

\* C1: when a step of the enter sequence has failed and flash has returned,
\* the operations observed after the failure are exactly assert RESET,
\* BOOT0 = main flash, close UART, deassert RESET, in this order.
C1_TeardownAfterFailure ==
    (Returned /\ innerErr # "none") => ObsAfterFailure = Teardown

\* C2: when flash has returned, BOOT0 is not left at system memory.
C2_Boot0NotLeftInSystemMemory ==
    Returned => boot0Pin.val # BOOT0_SYSTEM_MEMORY

\* C3: when flash has returned, with success or with any error, the last
\* operation on the RESET pin is deassert: line high, pin an output.
C3_ResetDeasserted ==
    Returned => (resetPin = [val |-> 1, mode |-> "OUTPUT"]
                 /\ \E i \in 1..Len(obs) :
                      /\ obs[i] = "deassertReset"
                      /\ \A j \in (i + 1)..Len(obs) : obs[j] # "assertReset")

OpcodeFrame(op) == <<op, Not8(op)>>

\* the Get of this session has stored bootloaderVersion and availableCommands
GetDone == bootloaderVersion # -1

\* the Get ID of this session has stored pid
GetIdDone == pid # -1

\* no frame of Erase (opcode or selector) and none of Write Memory is in tx
NoEraseOrWriteBytes ==
    \A i \in 1..Len(tx) :
        /\ tx[i] \notin {OpcodeFrame(CMD_ERASE), OpcodeFrame(CMD_WRITE_MEMORY),
                         <<255, 0>>}
        /\ Len(tx[i]) <= 2

UnsupportedErrors == {"IdNotAvailable", "EraseNotAvailable", "WriteNotAvailable"}

\* every opcode frame of Get ID, Erase or Write Memory in tx is of an opcode
\* that the Get of this session stored in availableCommands
C5_Gated ==
    \A i \in 1..Len(tx) :
        \A op \in {CMD_ID, CMD_ERASE, CMD_WRITE_MEMORY} :
            tx[i] = OpcodeFrame(op) =>
                (GetDone /\ _cmdIsAvailable(S, op))

\* C5, as claimed: gated opcodes are written only when listed, and when the
\* list omits 0x43 flash fails with the unsupported-command error with no
\* Erase byte and no Write Memory byte written.
C5_UnsupportedCommand ==
    /\ C5_Gated
    /\ (Returned /\ GetDone /\ ~_cmdIsAvailable(S, CMD_ERASE)) =>
           (result \in UnsupportedErrors /\ NoEraseOrWriteBytes)

\* C5, amended: gated opcodes are written only when listed; when the list
\* omits 0x43 no Erase byte and no Write Memory byte is ever written and flash
\* fails; it fails with the unsupported-command error unless the Get ID
\* exchange failed first or the UART close of the teardown failed, whose
\* error flash then returns.
C5_UnsupportedCommandAmended ==
    /\ C5_Gated
    /\ (GetDone /\ ~_cmdIsAvailable(S, CMD_ERASE)) => NoEraseOrWriteBytes
    /\ (Returned /\ GetDone /\ ~_cmdIsAvailable(S, CMD_ERASE)) =>
           /\ result # "ok"
           /\ result = (IF teardownErr # "none" THEN teardownErr
                        ELSE IF ~_cmdIsAvailable(S, CMD_ID) THEN "IdNotAvailable"
                        ELSE IF ~GetIdDone THEN innerErr
                        ELSE "EraseNotAvailable")
           /\ (~GetIdDone /\ _cmdIsAvailable(S, CMD_ID)) =>
                  innerErr \in {"Timeout", "WriteError", "ExpectedStartAck",
                                "ExpectedEndAck"}

\* Get ID succeeded, the list omits 0x43, flash returned the unsupported-command error
C5_Witness ==
    /\ Returned /\ GetDone /\ GetIdDone
    /\ ~_cmdIsAvailable(S, CMD_ERASE)
    /\ result = "EraseNotAvailable"
    /\ Len(tx) = 3

\* how often op occurs in obs
Count(op) == Cardinality({i \in 1..Len(obs) : obs[i] = op})

\* the operations of the enter sequence up to the first UART write
EnterOrder ==
    <<"open", "assertReset", "boot0SystemMemory", "sleep10", "deassertReset",
      "sleep500", "write">>

\* the step of the enter sequence a frame belongs to: autobaud 1, Get 2,
\* Get ID 3, Erase 4, Write Memory 5
Rank(f) ==
    CASE f = <<AUTOBAUD>> -> 1
      [] f = OpcodeFrame(CMD_GET) -> 2
      [] f = OpcodeFrame(CMD_ID) -> 3
      [] f \in {OpcodeFrame(CMD_ERASE), <<255, 0>>} -> 4
      [] OTHER -> 5

\* Len(obs) when the try block ended
TryEnd == IF innerErr = "none" THEN Len(obs) ELSE failAt

\* C6: the enter steps happen in one total order: open, assert RESET, BOOT0 =
\* system memory, 10 ms, deassert RESET, 500 ms, then the frames of autobaud,
\* Get, Get ID, Erase and Write Memory in this order; no byte is written to
\* the UART before the first six have happened.
C6_EnterOrder ==
    /\ \A i \in 1..Len(obs) :
          /\ (i <= Len(EnterOrder) /\ i <= TryEnd) => obs[i] = EnterOrder[i]
          /\ obs[i] = "write" =>
                 (i >= Len(EnterOrder) /\ SubSeq(obs, 1, 6) = SubSeq(EnterOrder, 1, 6))
    /\ \A i \in 1..Len(tx) :
          /\ i <= 4 => Rank(tx[i]) = i
          /\ i > 4 => Rank(tx[i]) >= 4
          /\ \A j \in 1..i : Rank(tx[j]) <= Rank(tx[i])
    /\ Count("write") = Len(tx)

\* a flash of two packets has gone through every enter step and returned
C6_Witness ==
    Returned /\ result = "ok" /\ Len(writeOps) = 2

\* C7: at most one UART handle is ever opened in a session; when flash has
\* returned, close has been invoked once, on the handle opened before, and
\* the driver holds no handle.
C7_HandleClosed ==
    /\ Count("open") <= 1
    /\ Count("close") <= Count("open")
    /\ Returned =>
          /\ serialPort = "null"
          /\ Count("close") = 1
          /\ \E i, j \in 1..Len(obs) :
                i < j /\ obs[i] = "open" /\ obs[j] = "close"

\* flash has returned on the path where close reported an error
C7_Witness ==
    Returned /\ teardownErr = "CloseError" /\ serialPort = "null"

\* the try block of _runSystemMemoryFn has run to its end without an error
TryDone == innerErr = "none" /\ (pc = "close" \/ Returned)

IsDataFrame(f) == Len(f) > 5
IsAddressFrame(f) == Len(f) = 5

\* the payloads of the Write Memory data frames of tx, concatenated in order
RECURSIVE PayloadsUpTo(_)
PayloadsUpTo(n) ==
    IF n = 0 THEN <<>>
    ELSE PayloadsUpTo(n - 1)
             \o (IF IsDataFrame(tx[n]) THEN SubSeq(tx[n], 2, Len(tx[n]) - 1)
                 ELSE <<>>)

Payloads == PayloadsUpTo(Len(tx))

\* C8: when every exchange was acknowledged, the payload bytes written in
\* data frames number ceil((n + 1) / 256) * 256, and their concatenation is
\* the input followed only by 0xFF bytes.
C8_Padding ==
    TryDone =>
        LET written == Payloads
        IN  /\ Len(written) =
                   ((Len(data) + 1 + (WRITE_PACKET_SIZE - 1)) \div WRITE_PACKET_SIZE)
                       * WRITE_PACKET_SIZE
            /\ \A i \in 1..Len(written) :
                   written[i] = (IF i <= Len(data) THEN data[i] ELSE FILL)

\* an image of 1000 % 512 = 488 bytes has been written in two packets
C8_Witness ==
    TryDone /\ Len(data) = 488 /\ Len(Payloads) = 512

\* C9: the k-th Write Memory operation (k from 0) targets start_address +
\* 256 * k, in its address frame too; an operation is started only when every
\* operation before it has received its data ACK, so after a failed one none
\* is started.
C9_WriteAddresses ==
    /\ \A k \in 1..Len(writeOps) :
          /\ writeOps[k].address = startAddress + WRITE_PACKET_SIZE * (k - 1)
          /\ k < Len(writeOps) => writeOps[k].acked
    /\ Len(SelectSeq(tx, LAMBDA f : f = OpcodeFrame(CMD_WRITE_MEMORY)))
           = Len(writeOps)
    /\ LET af == SelectSeq(tx, IsAddressFrame)
       IN  /\ Len(af) <= Len(writeOps)
           /\ \A k \in 1..Len(af) :
                  af[k] = AddressFrame(startAddress + WRITE_PACKET_SIZE * (k - 1))

\* the second packet has been acknowledged
C9_Witness ==
    Len(writeOps) = 2 /\ writeOps[2].acked /\ Len(SelectSeq(tx, IsAddressFrame)) = 2

\* C10: one flash-progress event per acknowledged packet and none for a
\* failed one; the event of packet k (from 0) carries start_address + 256 * k
\* and 256 * k.
C10_ProgressEvents ==
    /\ Len(events) = Cardinality({k \in 1..Len(writeOps) : writeOps[k].acked})
    /\ \A k \in 1..Len(events) :
          /\ writeOps[k].acked
          /\ events[k][1] = startAddress + WRITE_PACKET_SIZE * (k - 1)
          /\ events[k][2] = WRITE_PACKET_SIZE * (k - 1)

\* the first packet was acknowledged and the second failed
C10_Witness ==
    /\ Returned /\ Len(writeOps) = 2 /\ ~writeOps[2].acked
    /\ Len(events) = 1 /\ innerErr = "ExpectedDataAck"

\* C11, as claimed: the total of every flash-progress event is the number of
\* payload bytes the session writes; a 4-byte image at 0x08000000 gives the
\* one event (0x08000000, 0, 256).
C11_TotalIsBytesWritten ==
    TryDone =>
        /\ \A k \in 1..Len(events) : events[k][3] = Len(Payloads)
        /\ Len(data) = 4 => events = <<<<134217728, 0, 256>>>>

\* C11, amended: the total of every flash-progress event is the length of
\* _writeAll, data.length + (4 - data.length mod 4); a 4-byte image at
\* 0x08000000 gives the one event (0x08000000, 0, 8).
C11_TotalIsPaddedLength ==
    /\ \A k \in 1..Len(events) :
          events[k][3] = Len(data) + (4 - (Len(data) % 4))
    /\ (TryDone /\ Len(data) = 4) => events = <<<<134217728, 0, 8>>>>

\* the 4-byte image has been written in one packet
C11_Witness ==
    TryDone /\ Len(data) = 4 /\ Len(events) = 1 /\ Len(Payloads) = 256

\* C12: when the UART close of the teardown reports "Port is not open", the
\* close counts as successful: deassert RESET follows it and flash returns
\* what the try block produced, success when it succeeded; when close reports
\* any other error flash fails.
C12_PortNotOpenSwallowed ==
    /\ (Returned /\ closeErr = "PortNotOpen") =>
           /\ teardownErr = "none"
           /\ SubSeq(obs, Len(obs) - 1, Len(obs)) = <<"close", "deassertReset">>
           /\ resetPin = [val |-> 1, mode |-> "OUTPUT"]
           /\ result = (IF innerErr = "none" THEN "ok" ELSE innerErr)
    /\ (Returned /\ closeErr \notin {"unset", "none", "PortNotOpen"}) =>
           (result # "ok" /\ result = closeErr)

\* every packet was acknowledged, close reported "Port is not open", flash
\* returned success
C12_Witness ==
    /\ Returned /\ closeErr = "PortNotOpen" /\ result = "ok"
    /\ Len(events) >= 1

\* C13: over any sequence of init calls, each awaited before the next, the
\* first call makes the GPIO operations BOOT0 pin mode output, BOOT0 = main
\* flash, RESET deassert, and every later call makes no GPIO operation.
C13_InitIdempotent ==
    /\ \A i \in 1..Len(initObs) :
          initObs[i] = (IF i \in 2..4
                        THEN <<"pinModeBoot0", "boot0MainFlash", "deassertReset">>[i - 1]
                        ELSE "init")
    /\ initCalled <=> InitCalls >= 1
    /\ Len(initObs) \notin 1..3

\* init has been called twice
C13_Witness ==
    InitCalls = 2 /\ Len(initObs) = 5 /\ initCalled

\* C14: every flash call eventually returns, with success or an error,
\* whatever the device sends or withholds, when timers fire and the callbacks
\* of open and close are eventually invoked.
C14_FlashReturns == (result = "pending") ~> Returned

\* a Write Memory exchange was left without its answer and flash has returned
C14_Witness ==
    /\ Returned /\ innerErr = "Timeout"
    /\ Len(writeOps) = 1 /\ ~writeOps[1].acked

\* the invocations of done of the exchange k, in order
DoneCallsOf(k) == SelectSeq(doneCalls, LAMBDA c : c[1] = k)

\* the results delivered for the exchange k, in order
DeliveredOf(k) == SelectSeq(delivered, LAMBDA c : c[1] = k)

\* C15: a framed exchange delivers its result exactly once: an exchange that
\* has ended has one result, the argument of the first invocation of its
\* done, and no later invocation changes it or delivers another; an exchange
\* that is running has delivered nothing.
C15_ResultOnce ==
    \A k \in 1..exSeq :
        IF k = exSeq /\ exKind # "none"
        THEN DeliveredOf(k) = <<>> /\ DoneCallsOf(k) = <<>>
        ELSE /\ Len(DeliveredOf(k)) = 1
             /\ Len(DoneCallsOf(k)) >= 1
             /\ DeliveredOf(k)[1] = DoneCallsOf(k)[1]

\* done of an exchange was invoked a second time, after its parser had
\* completed with success
C15_Witness ==
    \E k \in 1..exSeq :
        /\ Len(DoneCallsOf(k)) = 2
        /\ DeliveredOf(k) = <<<<k, "none">>>>
        /\ DoneCallsOf(k)[2] = <<k, "WriteError">>

\* C16: an exchange that reaches its deadline fails with the timeout error;
\* when the device never answers the autobaud byte, flash fails with the
\* timeout error, the teardown (assert RESET, BOOT0 = main flash, close UART,
\* deassert RESET) is observed after it, and no byte of Get, Get ID, Erase or
\* Write Memory has been written.  Stated for a close that reports no error.
C16_TimeoutOnAutobaud ==
    /\ \A i \in 1..Len(delivered) :
          (\E j \in 1..Len(doneCalls) :
               /\ doneCalls[j] = <<delivered[i][1], "Timeout">>
               /\ \A h \in 1..(j - 1) : doneCalls[h][1] # delivered[i][1])
              => delivered[i][2] = "Timeout"
    /\ (Returned /\ delivered = <<<<1, "Timeout">>>> /\ closeErr = "none") =>
           /\ result = "Timeout"
           /\ tx = <<<<AUTOBAUD>>>>
           /\ ObsAfterFailure = Teardown

\* C17: when an exchange delivers its result no data listener is attached;
\* the data listener is attached before the request is written, and so at
\* every serial write one listener is attached; never is more than one data
\* listener attached.
C17_Listeners ==
    /\ listeners <= 1
    /\ \A i \in 1..Len(listenerLog) :
          /\ listenerLog[i][1] = "deliver" => listenerLog[i][2] = 0
          /\ listenerLog[i][1] = "write" => listenerLog[i][2] = 1
    /\ Len(SelectSeq(listenerLog, LAMBDA e : e[1] = "write")) = Len(tx)
    /\ Len(SelectSeq(listenerLog, LAMBDA e : e[1] = "deliver")) = Len(delivered)

\* five exchanges have delivered their results, the last one a parser error
C17_Witness ==
    /\ Returned /\ Len(delivered) >= 5
    /\ delivered[Len(delivered)][2] = "ExpectedDataAck"
    /\ listeners = 0

\* C18: an invocation of done of an exchange that has already delivered its
\* result has no effect: the step leaves the data listeners, the timer, the
\* UART handle and the flash call as they were, and the process alive.
C18_LateDoneIgnored ==
    [][(/\ Len(doneCalls') = Len(doneCalls) + 1
        /\ \E i \in 1..Len(delivered) :
               delivered[i][1] = doneCalls'[Len(doneCalls')][1])
       => /\ listeners' = listeners
          /\ timeout' = timeout
          /\ serialPort' = serialPort
          /\ crashed' = crashed
          /\ pc' = pc /\ result' = result /\ delivered' = delivered]_vars

\* the frames of Write Memory exchanges in tx, in order
WriteFrames == SelectSeq(tx, LAMBDA f : Rank(f) = 5)

\* the frames of Write Memory go opcode, address, data, opcode, ...; in the
\* state ERROR the exchange has ended with the error of the phase its last
\* frame belongs to, and the call is in teardown or has returned
C19_Phases ==
    /\ \A j \in 1..Len(WriteFrames) :
          CASE j % 3 = 1 -> WriteFrames[j] = OpcodeFrame(CMD_WRITE_MEMORY)
            [] j % 3 = 2 -> IsAddressFrame(WriteFrames[j])
            [] j % 3 = 0 -> IsDataFrame(WriteFrames[j])
    /\ state = ERROR =>
          /\ pc \in {"close", "idle"} /\ exKind = "none"
          /\ ~writeOps[Len(writeOps)].acked
          /\ delivered[Len(delivered)] = <<exSeq, innerErr>>
          /\ innerErr = (CASE Len(WriteFrames) % 3 = 1 -> "ExpectedStartAck"
                           [] Len(WriteFrames) % 3 = 2 -> "ExpectedAddressAck"
                           [] Len(WriteFrames) % 3 = 0 -> "ExpectedDataAck")

\* an address frame or a data frame is written only in answer to a chunk
\* that begins with ACK, after the frame before it; a chunk that begins with
\* another byte moves a running Write Memory exchange to ERROR and writes nothing
C19_AckBeforeFrame ==
    [][/\ (Len(tx') = Len(tx) + 1 /\ IsAddressFrame(tx'[Len(tx')])) =>
              /\ rxq # <<>> /\ rxq[1] = ACK
              /\ tx[Len(tx)] = OpcodeFrame(CMD_WRITE_MEMORY)
       /\ (Len(tx') = Len(tx) + 1 /\ IsDataFrame(tx'[Len(tx')])) =>
              /\ rxq # <<>> /\ rxq[1] = ACK
              /\ IsAddressFrame(tx[Len(tx)])
       /\ (/\ exKind = "write" /\ listeners > 0 /\ rxq # <<>> /\ rxq[1] # ACK
           /\ Len(doneCalls') = Len(doneCalls) + 1
           /\ doneCalls'[Len(doneCalls')][2] \notin {"Timeout", "WriteError"}) =>
              /\ state' = ERROR /\ tx' = tx
              /\ delivered' = Append(delivered, doneCalls'[Len(doneCalls')])
              /\ delivered'[Len(delivered')][2] # "none"]_vars

\* a 0x1F answer to the data frame fails flash, and the teardown is observed
\* after it (for a close that reports no error)
C19_NackTeardown ==
    (Returned /\ innerErr = "ExpectedDataAck" /\ closeErr = "none") =>
        /\ result = "ExpectedDataAck"
        /\ state = ERROR
        /\ ObsAfterFailure = Teardown

\* C19: in a Write Memory exchange the opcode frame, the address frame and
\* the data frame are written in this order, the last two only after an ACK
\* answered the frame before; a first byte other than ACK fails the exchange
\* at once, moves the state to ERROR, and nothing more is written; a 0x1F
\* answer to the data frame fails flash, and the teardown is observed.
C19_WriteMemoryPhases ==
    /\ []C19_Phases
    /\ C19_AckBeforeFrame
    /\ []C19_NackTeardown

\* the last byte of the frame f is the XOR of the bytes before it: its bit k
\* is the parity of the number of those bytes that have bit k set
LastIsXorOfRest(f) ==
    /\ \A i \in 1..Len(f) : f[i] \in 0..255
    /\ \A k \in 0..7 :
          (f[Len(f)] \div (2 ^ k)) % 2 =
              Cardinality({i \in 1..(Len(f) - 1) : (f[i] \div (2 ^ k)) % 2 = 1}) % 2

\* C20: the address frame is the four bytes of the target address, most
\* significant first, and their XOR; the data frame is N = length - 1, the
\* payload, and the XOR of N and the payload; for 0x08000000 the address
\* frame is 08 00 00 00 08.
C20_Checksums ==
    LET af == SelectSeq(tx, IsAddressFrame)
        df == SelectSeq(tx, IsDataFrame)
    IN  /\ \A k \in 1..Len(af) :
              /\ LastIsXorOfRest(af[k])
              /\ af[k][1] * 16777216 + af[k][2] * 65536 + af[k][3] * 256 + af[k][4]
                     = writeOps[k].address
        /\ \A k \in 1..Len(df) :
              /\ LastIsXorOfRest(df[k])
              /\ df[k][1] = (Len(df[k]) - 2) - 1
              /\ Len(df[k]) = WRITE_PACKET_SIZE + 2
        /\ (Len(af) >= 1 /\ startAddress = 134217728) => af[1] = <<8, 0, 0, 0, 8>>

\* three packets have been written, at 0x08000000, 0x08000100 and 0x08000200
C20_Witness ==
    /\ TryDone /\ Len(SelectSeq(tx, IsDataFrame)) = 3
    /\ SelectSeq(tx, IsAddressFrame)[3] = <<8, 0, 2, 0, 10>>

\* the concatenation of the first n of the sequences of qs
RECURSIVE ConcatUpTo(_, _)
ConcatUpTo(qs, n) == IF n = 0 THEN <<>> ELSE ConcatUpTo(qs, n - 1) \o qs[n]

\* the bytes the listener of the exchange that is followed has been given
Received == ConcatUpTo(rxLog.chunks, Len(rxLog.chunks))

\* C21: for every well-formed Get response and every way of splitting it
\* into chunks, Get ends when the last byte has been handed over, and not
\* before; it succeeds when the byte at offset N + 3 is ACK, with
\* bootloaderVersion the byte at offset 2 and availableCommands the bytes at
\* offsets 3..N+2, and fails when that byte is not ACK.
C21_GetAnyChunking ==
    rxLog.kind = "get" =>
        LET r == Received
            out == DeliveredOf(rxLog.ex)
        IN  /\ rxq = <<>> => Len(out) = 1
            /\ out # <<>> =>
                  /\ Len(r) = r[2] + 4
                  /\ out[1][2] = (IF r[Len(r)] = ACK THEN "none" ELSE "ExpectedEndAck")
                  /\ out[1][2] = "none" =>
                         /\ bootloaderVersion = r[3]
                         /\ availableCommands = SubSeq(r, 4, r[2] + 3)
                  /\ out[1][2] # "none" =>
                         (bootloaderVersion = -1 /\ availableCommands = <<>>)

\* a response of three opcodes has come in three chunks, the first one the
\* ACK and the length byte, and Get has succeeded
C21_Witness ==
    /\ rxLog.kind = "get" /\ Len(rxLog.chunks) = 3 /\ Len(rxLog.chunks[1]) = 2
    /\ DeliveredOf(rxLog.ex) = <<<<rxLog.ex, "none">>>>
    /\ availableCommands = <<CMD_ERASE, CMD_WRITE_MEMORY, CMD_ID>>

\* the exchange ex of the state s, given the bytes q[i..] one byte a chunk,
\* as long as it runs
RECURSIVE RunBytes(_, _, _, _)
RunBytes(s, q, i, ex) ==
    IF i > Len(q) \/ s.exSeq # ex \/ s.exKind = "none" \/ s.listeners = 0 THEN s
    ELSE RunBytes(onData(s, <<q[i]>>, FALSE), q, i + 1, ex)

\* the timer of the exchange that is followed has fired
TimedOut == \E i \in 1..Len(doneCalls) : doneCalls[i] = <<rxLog.ex, "Timeout">>

\* C22: the outcome of an Erase and of a Write Memory exchange depends only
\* on the bytes received, not on the chunks they come in: once the bytes have
\* been handed over, the result delivered and the frames written are those
\* of the run that receives the same bytes one byte a chunk.
C22_ChunkIndependent ==
    (rxLog.kind \in {"erase", "write"} /\ rxq = <<>> /\ ~TimedOut) =>
        LET ref == RunBytes(ExchangeStart(rxLog.kind), Received, 1, rxLog.ex)
        IN  /\ DeliveredOf(rxLog.ex)
                   = SelectSeq(ref.delivered, LAMBDA c : c[1] = rxLog.ex)
            /\ tx = ref.tx

\* the Erase exchange, the fourth of a session, has delivered success
EraseSucceeded == Len(delivered) >= 4 /\ delivered[4] = <<4, "none">>

\* C23: an Erase exchange that completes with success has written the
\* selector [0xFF, 0x00] exactly once, right after its opcode frame and
\* before it completed; Erase never succeeds without the selector written.
C23_SelectorOnce ==
    EraseSucceeded =>
        /\ Len(SelectSeq(tx, LAMBDA f : f = <<255, 0>>)) = 1
        /\ tx[4] = OpcodeFrame(CMD_ERASE)
        /\ Len(tx) >= 5 /\ tx[5] = <<255, 0>>

\* C24: Enter Bootloader writes the single byte 0x7F; the first chunk decides
\* it: it succeeds only when that chunk is the one byte 0x79, and a first
\* chunk of another length or another byte fails the session with no byte of
\* Get, Get ID, Erase or Write Memory written.
C24_EnterFirstChunk ==
    rxLog.kind = "enter" =>
        LET out == DeliveredOf(rxLog.ex)
        IN  /\ tx # <<>> /\ tx[1] = <<AUTOBAUD>>
            /\ rxLog.chunks # <<>> =>
                  /\ Len(rxLog.chunks) = 1 /\ Len(out) = 1
                  /\ out[1][2] = "none" <=> rxLog.chunks[1] = <<ACK>>
            /\ (out # <<>> /\ out[1][2] = "none") => rxLog.chunks = <<<<ACK>>>>
            /\ (out # <<>> /\ out[1][2] # "none") =>
                  /\ tx = <<<<AUTOBAUD>>>>
                  /\ innerErr = out[1][2]
                  /\ pc \in {"close", "idle"}
                  /\ Returned => result \notin {"ok", "pending"}

\* the first chunk was two bytes, the first of them 0x79, and flash has failed
C24_Witness ==
    /\ rxLog.kind = "enter" /\ rxLog.chunks = <<<<ACK, ACK>>>>
    /\ Returned /\ innerErr = "EnterExpectedLength1"

\* C25: in the loop of _writeAll the offset of every pass is a multiple of
\* 256 and at most data.length, so the copy never starts past the end of the
\* input; every packet is 256 bytes; on a device that acknowledges every
\* packet the loop makes ceil((data.length + 4 - data.length mod 4) / 256)
\* passes.
C25_WriteAllLoop ==
    /\ offset % WRITE_PACKET_SIZE = 0
    /\ exKind = "write" => offset <= Len(data)
    /\ innerErr # "RangeError"
    /\ \A k \in 1..Len(events) :
          events[k][2] = WRITE_PACKET_SIZE * (k - 1) /\ events[k][2] <= Len(data)
    /\ Len(writeOps) >= 1 => Len(packet) = WRITE_PACKET_SIZE
    /\ \A i \in 1..Len(tx) :
          IsDataFrame(tx[i]) => Len(tx[i]) = WRITE_PACKET_SIZE + 2
    /\ TryDone =>
          Len(writeOps) =
              ((Len(data) + 4 - (Len(data) % 4)) + (WRITE_PACKET_SIZE - 1))
                  \div WRITE_PACKET_SIZE

\* an image of 256 bytes has taken two passes, the second at offset 256
C25_Witness ==
    /\ TryDone /\ Len(data) = WRITE_PACKET_SIZE
    /\ Len(writeOps) = 2 /\ events[2][2] = Len(data)

=============================================================================
